---- MODULE Spec2Model ----
(***************************************************************************)
(* Model of src/agent.py: the ProgressTracker (user_data and the three     *)
(* methods that read or write it) and the DSAInterviewPrepAgent            *)
(* coordinator (start_session, submit_solution, get_study_plan).  The two  *)
(* LLM-backed agents are modelled by what their try/except returns: a      *)
(* populated dict when the client call succeeds, {'error': ...} when it    *)
(* raises.                                                                 *)
(*                                                                         *)
(* Spec      callers invoke the methods one after another (each method is  *)
(*           one step).                                                    *)
(* SpecConc  several threads call update_progress on the same tracker; the *)
(*           method is split at the points where the interpreter may       *)
(*           switch threads, since the source takes no lock.               *)
(* SpecRead  one thread records while another reads (get_progress_summary, *)
(*           get_study_plan, start_session).                               *)
(* SpecPlan  the reading methods on trackers that already have a history.  *)
(* SpecAgent the coordinator's three public methods on a fresh agent.      *)
(* SpecHeld  a caller keeps a returned summary dict across later calls.    *)
(***************************************************************************)
EXTENDS Integers, Sequences, FiniteSets, TLC

\* ---------------------------------------------------------------- bounds
\* attempts recorded in one behaviour, on top of the initial history
MaxAttempts == 2
\* how many leading catalog topics callers of update_progress pass in
NTopicInputs == 2
\* threads calling update_progress concurrently (SpecConc)
NThreads == 2
\* longest of the short histories a study plan is asked for (SpecPlan)
MaxHistory == 12
\* length of the one long history a study plan is asked for (SpecPlan)
BigHistory == 20001

\* ------------------------------------------------------------- constants
\* recommend_next_topic: all_topics
all_topics ==
  << "Arrays", "Linked Lists", "Trees", "Graphs", "Dynamic Programming",
     "Backtracking", "Greedy", "Sorting", "Searching", "Strings" >>

Range(s) == { s[i] : i \in 1..Len(s) }

TopicCatalog == Range(all_topics)

\* a topic string that is not in the catalog
BadTopic == "Quantum Computing"

\* topic.lower().replace(' ', '_') of generate_problem's id
Slug(topic) ==
  CASE topic = "Arrays" -> "arrays"
    [] topic = "Linked Lists" -> "linked_lists"
    [] topic = "Trees" -> "trees"
    [] topic = "Graphs" -> "graphs"
    [] topic = "Dynamic Programming" -> "dynamic_programming"
    [] topic = "Backtracking" -> "backtracking"
    [] topic = "Greedy" -> "greedy"
    [] topic = "Sorting" -> "sorting"
    [] topic = "Searching" -> "searching"
    [] topic = "Strings" -> "strings"
    [] OTHER -> "other"

\* ---------------------------------------------------------------- inputs
TopicInputs == { all_topics[i] : i \in 1..NTopicInputs } \cup { BadTopic }
ProblemIdInputs == { "", "p1" }
DifficultyInputs == { "Easy", "Medium" }
UserLevelInputs == { "beginner", "intermediate" }
\* lengths of the histories a behaviour may start from: the state after
\* that many solved attempts, one per catalog topic in catalog order (a
\* fresh tracker, and one with every catalog topic covered; SpecPlan starts
\* from the lengths in between)
WarmStarts == { 0, Len(all_topics) }

VARIABLES
  problems_solved,   \* user_data['problems_solved']: sequence of attempts
  topics_covered,    \* user_data['topics_covered']: set of topics
  weak_areas,        \* user_data['weak_areas']: sequence of topics
  total_problems,    \* user_data['total_problems']
  ret,               \* the dict the last call returned to its caller
  call,              \* the last call and its inputs (what the caller passed
                     \* and what the LLM client did)
  calls,             \* number of update_progress calls made so far
  solved_calls,      \* number of those with solved = True
  base,              \* length of the initial history
  pc,                \* SpecConc: position of each thread in update_progress
  targ,              \* SpecConc: arguments of each thread's call
  tload,             \* SpecConc: total_problems as loaded by each thread
  tcount,            \* SpecConc: solved_count as computed by each thread
  held,              \* a summary dict a caller kept, as it was returned
  rpc,               \* SpecRead: position of the reading thread
  rloc               \* SpecRead: local variables of the reading thread

tracker == << problems_solved, topics_covered, weak_areas, total_problems >>
ghost == << calls, solved_calls, base, held >>
reader == << rpc, rloc >>
threads == << pc, targ, tload, tcount, rpc, rloc >>
vars == << problems_solved, topics_covered, weak_areas, total_problems,
           ret, call, calls, solved_calls, base, pc, targ, tload,
           tcount, held, rpc, rloc >>

Threads == 1..NThreads

\* ------------------------------------------------------- dict shapes
\* an entry of user_data['problems_solved'] (the timestamp is left out: no
\* code reads it)
Attempt(problem_id, topic, difficulty, solved) ==
  [ id |-> problem_id, topic |-> topic, difficulty |-> difficulty,
    solved |-> solved ]

NoProblem == [ error |-> FALSE, id |-> "", topic |-> "", difficulty |-> "" ]
NoEvaluation == [ error |-> FALSE, problem_id |-> "" ]
NoSummary ==
  [ total_problems |-> 0, problems_solved |-> 0, accuracy |-> 0,
    topics_covered |-> {}, weak_areas |-> << >> ]
NoRet ==
  [ op |-> "none", status |-> "none", problem |-> NoProblem,
    evaluation |-> NoEvaluation, progress |-> NoSummary,
    recommended_topic |-> "", suggestions |-> << >> ]
NoCall ==
  [ op |-> "none", problem_id |-> "", topic |-> "", difficulty |-> "",
    solved |-> FALSE, ok |-> TRUE, verdict |-> FALSE, problem |-> NoProblem,
    user_level |-> "" ]

\* no dict kept by the caller
NoHeld == [ set |-> FALSE, progress |-> NoSummary ]

\* the reading thread's locals before its first call
NoLocals ==
  [ op |-> "none", count |-> 0, len |-> 0, sum |-> NoSummary, topic |-> "",
    problem |-> NoProblem, user_level |-> "", ok |-> TRUE ]

\* --------------------------------------------------- ProgressTracker
\* sum(1 for p in problems_solved if p['solved'])
SolvedCount(hist) == Cardinality({ i \in 1..Len(hist) : hist[i].solved })

\* line 67 without the `* 100`
Accuracy_fraction(solved_count, total) ==
  IF total > 0
  THEN LET n == solved_count * 100
           q == n \div total
           r == n % total
       IN  IF 2 * r > total THEN q + 1
           ELSE IF 2 * r = total THEN q + (q % 2)
           ELSE q
  ELSE 0

\* round(solved_count / total * 100, 2), in hundredths of a percent;
\* 0 when total is not positive.  round() rounds an exact tie to the even
\* neighbour; an exact tie needs total to be a multiple of 32, where the
\* float quotient decides instead, and no total of the model is one
\* (except 0 solved of 32k, which is 0 either way).
Accuracy(solved_count, total) ==
  IF total > 0
  THEN LET n == solved_count * 10000
           q == n \div total
           r == n % total
       IN  IF 2 * r > total THEN q + 1
           ELSE IF 2 * r = total THEN q + (q % 2)
           ELSE q
  ELSE 0

\* the dict built by get_progress_summary from the values it read
Summary(solved_count, total, covered, weak) ==
  [ total_problems |-> total,
    problems_solved |-> solved_count,
    accuracy |-> Accuracy(solved_count, total),
    topics_covered |-> covered,
    weak_areas |-> weak ]

get_progress_summary ==
  Summary(SolvedCount(problems_solved), total_problems, topics_covered,
          weak_areas)

\* uncovered = [t for t in all_topics if t not in topics_covered]
Uncovered(covered) ==
  SelectSeq(all_topics, LAMBDA t : t \notin covered)

\* recommend_next_topic with the most recent weakness first
recommend_next_topic_latest ==
  IF weak_areas # << >>
  THEN weak_areas[Len(weak_areas)]
  ELSE LET uncovered == Uncovered(topics_covered)
       IN  IF uncovered # << >> THEN uncovered[1] ELSE all_topics[1]

recommend_next_topic ==
  IF weak_areas # << >>
  THEN weak_areas[1]
  ELSE LET uncovered == Uncovered(topics_covered)
       IN  IF uncovered # << >> THEN uncovered[1] ELSE all_topics[1]

\* lines 58-60 without the membership test of line 59
weak_areas_after_nocheck(weak, topic, solved) ==
  IF ~solved THEN Append(weak, topic) ELSE weak

\* lines 58-60 with a solved attempt clearing the topic's weakness
weak_areas_after_heal(weak, topic, solved) ==
  IF ~solved
  THEN IF topic \notin Range(weak) THEN Append(weak, topic) ELSE weak
  ELSE SelectSeq(weak, LAMBDA w : w # topic)

\* update_progress, lines 58-60: the weak_areas list after the call
weak_areas_after(weak, topic, solved) ==
  IF ~solved
  THEN IF topic \notin Range(weak) THEN Append(weak, topic) ELSE weak
  ELSE weak

\* line 56 written as an assignment of 1 instead of an increment
total_problems_after_reset(total) == IF total = 0 THEN 1 ELSE total

\* update_progress, line 56
total_problems_after(total) == total + 1

\* update_progress keeping the newest attempt first
update_progress_newest_first(problem_id, topic, difficulty, solved) ==
  /\ problems_solved' =
       << Attempt(problem_id, topic, difficulty, solved) >> \o problems_solved
  /\ topics_covered' = topics_covered \cup { topic }
  /\ total_problems' = total_problems_after(total_problems)
  /\ weak_areas' = weak_areas_after(weak_areas, topic, solved)
  /\ calls' = calls + 1
  /\ solved_calls' = IF solved THEN solved_calls + 1 ELSE solved_calls

\* update_progress: the whole method, as one step on the tracker
update_progress(problem_id, topic, difficulty, solved) ==
  /\ problems_solved' =
       Append(problems_solved, Attempt(problem_id, topic, difficulty, solved))
  /\ topics_covered' = topics_covered \cup { topic }
  /\ total_problems' = total_problems_after(total_problems)
  /\ weak_areas' = weak_areas_after(weak_areas, topic, solved)
  /\ calls' = calls + 1
  /\ solved_calls' = IF solved THEN solved_calls + 1 ELSE solved_calls

\* -------------------------------------- ProblemGeneratorAgent / Evaluator
\* generate_problem: the problem dict, or {'error': ...} when the client
\* call raises.  The id is the slug of the topic and a timestamp; user_level
\* goes into the prompt only.
generate_problem(topic, difficulty, user_level, ok) ==
  IF ok
  THEN [ error |-> FALSE, id |-> Slug(topic), topic |-> topic,
         difficulty |-> difficulty ]
  ELSE [ error |-> TRUE, id |-> "", topic |-> "", difficulty |-> "" ]

\* evaluate_solution: the evaluation dict, or {'error': ...} when the client
\* call raises.  The feedback text is not parsed by any code.
evaluate_solution(problem_id, ok) ==
  IF ok
  THEN [ error |-> FALSE, problem_id |-> problem_id ]
  ELSE [ error |-> TRUE, problem_id |-> "" ]

\* ------------------------------------------------ DSAInterviewPrepAgent
\* _generate_study_suggestions with elif in place of the second and third if
generate_study_suggestions_elif(progress) ==
  IF progress.total_problems < 10
  THEN << [ rule |-> "consistency", topic |-> "" ] >>
  ELSE IF progress.accuracy < 5000
  THEN << [ rule |-> "concepts", topic |-> "" ] >>
  ELSE IF progress.weak_areas # << >>
  THEN << [ rule |-> "review", topic |-> progress.weak_areas[1] ] >>
  ELSE << >>

\* _generate_study_suggestions
generate_study_suggestions(progress) ==
  LET s1 == IF progress.total_problems < 10
            THEN << [ rule |-> "consistency", topic |-> "" ] >> ELSE << >>
      s2 == IF progress.accuracy < 5000
            THEN << [ rule |-> "concepts", topic |-> "" ] >> ELSE << >>
      s3 == IF progress.weak_areas # << >>
            THEN << [ rule |-> "review", topic |-> progress.weak_areas[1] ] >>
            ELSE << >>
  IN  s1 \o s2 \o s3

\* ------------------------------------------------------------------ Init
\* ProgressTracker.__init__, followed by base solved attempts, one per
\* catalog topic in catalog order (base = 0: a fresh tracker)
InitHistory(n) ==
  [ i \in 1..n |-> Attempt("p1", all_topics[i], "Medium", TRUE) ]

Init ==
  /\ base \in WarmStarts
  /\ problems_solved = InitHistory(base)
  /\ topics_covered = { all_topics[i] : i \in 1..base }
  /\ weak_areas = << >>
  /\ total_problems = base
  /\ calls = base
  /\ solved_calls = base
  /\ ret = NoRet
  /\ call = NoCall
  /\ pc = [ t \in Threads |-> "idle" ]
  /\ targ = [ t \in Threads |-> Attempt("", "", "", FALSE) ]
  /\ tload = [ t \in Threads |-> 0 ]
  /\ tcount = [ t \in Threads |-> 0 ]
  /\ held = NoHeld
  /\ rpc = "idle"
  /\ rloc = NoLocals

\* the bound on the behaviour's length
CanRecord == Len(problems_solved) < base + MaxAttempts

\* --------------------------------------------- callers, one at a time
\* a caller invokes ProgressTracker.update_progress directly
UpdateProgress ==
  \E problem_id \in ProblemIdInputs, topic \in TopicInputs,
     difficulty \in DifficultyInputs, solved \in BOOLEAN :
    /\ CanRecord
    /\ update_progress(problem_id, topic, difficulty, solved)
    /\ ret' = [ NoRet EXCEPT !.op = "update_progress",
                             !.progress = get_progress_summary' ]
    /\ call' = [ NoCall EXCEPT !.op = "update_progress",
                               !.problem_id = problem_id,
                               !.topic = topic,
                               !.difficulty = difficulty,
                               !.solved = solved ]
    /\ UNCHANGED << base, held, threads >>

\* a caller invokes ProgressTracker.get_progress_summary directly
GetProgressSummary ==
  /\ ret' = [ NoRet EXCEPT !.op = "get_progress_summary",
                           !.progress = get_progress_summary ]
  /\ call' = [ NoCall EXCEPT !.op = "get_progress_summary" ]
  /\ UNCHANGED << tracker, ghost, threads >>

\* a caller invokes ProgressTracker.recommend_next_topic directly
RecommendNextTopic ==
  /\ ret' = [ NoRet EXCEPT !.op = "recommend_next_topic",
                           !.recommended_topic = recommend_next_topic ]
  /\ call' = [ NoCall EXCEPT !.op = "recommend_next_topic" ]
  /\ UNCHANGED << tracker, ghost, threads >>

\* start_session counting the issued problem as an attempted one
start_session_counts(user_level, ok) ==
  LET topic == recommend_next_topic
      problem == generate_problem(topic, "Medium", user_level, ok)
  IN  /\ total_problems' = total_problems + 1
      /\ UNCHANGED << problems_solved, topics_covered, weak_areas, ghost,
                      threads >>
      /\ ret' = [ NoRet EXCEPT !.op = "start_session",
                               !.status = "session_started",
                               !.problem = problem,
                               !.progress = get_progress_summary' ]
      /\ call' = [ NoCall EXCEPT !.op = "start_session",
                                 !.topic = topic,
                                 !.user_level = user_level,
                                 !.ok = ok ]

\* start_session; ok: whether the generator's client call returned
start_session(user_level, ok) ==
  LET topic == recommend_next_topic
      problem == generate_problem(topic, "Medium", user_level, ok)
  IN  /\ ret' = [ NoRet EXCEPT !.op = "start_session",
                               !.status = "session_started",
                               !.problem = problem,
                               !.progress = get_progress_summary ]
      /\ call' = [ NoCall EXCEPT !.op = "start_session",
                                 !.topic = topic,
                                 !.user_level = user_level,
                                 !.ok = ok ]
      /\ UNCHANGED << tracker, ghost, threads >>

StartSession ==
  \E user_level \in UserLevelInputs, ok \in BOOLEAN :
    start_session(user_level, ok)

\* the recorded outcome of submit_solution, line 244
submit_solved(evaluation, verdict) == TRUE

\* line 247 taking the topic from the submitted problem when it is known
submit_topic_from_problem(problem) ==
  IF problem # NoProblem THEN problem.topic ELSE "Dynamic Programming"

\* the recorded topic of submit_solution, line 247
submit_topic(problem) == "Dynamic Programming"

\* the recorded difficulty of submit_solution, line 248
submit_difficulty(problem) == "Medium"

\* submit_solution; problem: the problem the caller is answering (NoProblem
\* when the id was not issued by start_session); ok: whether the
\* evaluator's client call returned; verdict: the correctness its feedback
\* states
submit_solution(problem_id, problem, ok, verdict) ==
  LET evaluation == evaluate_solution(problem_id, ok)
  IN  /\ update_progress(problem_id, submit_topic(problem),
                         submit_difficulty(problem),
                         submit_solved(evaluation, verdict))
      /\ ret' = [ NoRet EXCEPT !.op = "submit_solution",
                               !.status = "solution_evaluated",
                               !.evaluation = evaluation,
                               !.progress = get_progress_summary' ]
      /\ call' = [ NoCall EXCEPT !.op = "submit_solution",
                                 !.problem_id = problem_id,
                                 !.problem = problem,
                                 !.ok = ok,
                                 !.verdict = verdict ]
      /\ UNCHANGED << base, held, threads >>

\* the caller answers the problem start_session has just returned
SubmitIssued ==
  \E ok \in BOOLEAN, verdict \in BOOLEAN :
    /\ CanRecord
    /\ ret.op = "start_session"
    /\ ~ret.problem.error
    /\ submit_solution(ret.problem.id, ret.problem, ok, verdict)

\* the caller submits under an id of its own
SubmitOther ==
  \E problem_id \in ProblemIdInputs, ok \in BOOLEAN, verdict \in BOOLEAN :
    /\ CanRecord
    /\ submit_solution(problem_id, NoProblem, ok, verdict)

get_study_plan ==
  LET progress == get_progress_summary
      next_topic == recommend_next_topic
  IN  /\ ret' = [ NoRet EXCEPT !.op = "get_study_plan",
                               !.progress = progress,
                               !.recommended_topic = next_topic,
                               !.suggestions =
                                  generate_study_suggestions(progress) ]
      /\ call' = [ NoCall EXCEPT !.op = "get_study_plan" ]
      /\ UNCHANGED << tracker, ghost, threads >>

GetStudyPlan == get_study_plan

Next ==
  \/ UpdateProgress
  \/ GetProgressSummary
  \/ RecommendNextTopic
  \/ StartSession
  \/ SubmitIssued
  \/ SubmitOther
  \/ GetStudyPlan

Spec == Init /\ [][Next]_vars

\* ------------------------- reading a tracker that already has a history
\* the state after n update_progress calls, the first f of them failed, the
\* topics taken round the catalog
Min(a, b) == IF a < b THEN a ELSE b

ProfileHistory(n, f) ==
  [ i \in 1..n |->
      Attempt("p1", all_topics[((i - 1) % Len(all_topics)) + 1], "Medium",
              i > f) ]

Profiles ==
  { << n, f >> : n \in 0..MaxHistory, f \in 0..MaxHistory } \cup
  { << BigHistory, f >> : f \in 0..1 }

InitPlan ==
  \E p \in Profiles :
    /\ p[2] <= p[1]
    /\ base = p[1]
    /\ problems_solved = ProfileHistory(p[1], p[2])
    /\ topics_covered =
         { all_topics[i] : i \in 1..Min(p[1], Len(all_topics)) }
    /\ weak_areas = [ i \in 1..Min(p[2], Len(all_topics)) |-> all_topics[i] ]
    /\ total_problems = p[1]
    /\ calls = p[1]
    /\ solved_calls = p[1] - p[2]
    /\ ret = NoRet
    /\ call = NoCall
    /\ pc = [ t \in Threads |-> "idle" ]
    /\ targ = [ t \in Threads |-> Attempt("", "", "", FALSE) ]
    /\ tload = [ t \in Threads |-> 0 ]
    /\ tcount = [ t \in Threads |-> 0 ]
    /\ held = NoHeld
    /\ rpc = "idle"
    /\ rloc = NoLocals

NextPlan ==
  \/ GetProgressSummary
  \/ RecommendNextTopic
  \/ GetStudyPlan

SpecPlan == InitPlan /\ [][NextPlan]_vars

\* ------------------- the coordinator's public operations on a fresh agent
InitAgent == Init /\ base = 0

NextAgent ==
  \/ StartSession
  \/ SubmitIssued
  \/ SubmitOther
  \/ GetStudyPlan

SpecAgent == InitAgent /\ [][NextAgent]_vars

\* ------------------------------------- threads sharing one ProgressTracker
\* update_progress takes no lock, so a thread switch can fall between any
\* two of its statements, and inside `total_problems += 1` between the
\* load and the store.  Each step below is one such piece.
InitConc == Init /\ base = 0

Idle == \A t \in Threads : pc[t] = "idle"

\* calls that have started and not yet appended their attempt
Starting == Cardinality({ t \in Threads : pc[t] = "append" })

Goto(t, label) == pc' = [ pc EXCEPT ![t] = label ]

\* thread t enters update_progress
T_Call(t) ==
  \E topic \in TopicInputs, solved \in BOOLEAN :
    /\ pc[t] = "idle"
    /\ Len(problems_solved) + Starting < base + MaxAttempts
    /\ targ' = [ targ EXCEPT ![t] = Attempt("p1", topic, "Medium", solved) ]
    /\ Goto(t, "append")
    /\ UNCHANGED << tracker, ret, call, ghost, tload, tcount, reader >>

\* lines 47-53: problems_solved.append({...})
T_Append(t) ==
  /\ pc[t] = "append"
  /\ problems_solved' = Append(problems_solved, targ[t])
  /\ Goto(t, "add_topic")
  /\ UNCHANGED << topics_covered, weak_areas, total_problems, ret, call,
                  ghost, targ, tload, tcount, reader >>

\* line 55: topics_covered.add(topic)
T_AddTopic(t) ==
  /\ pc[t] = "add_topic"
  /\ topics_covered' = topics_covered \cup { targ[t].topic }
  /\ Goto(t, "load_total")
  /\ UNCHANGED << problems_solved, weak_areas, total_problems, ret, call,
                  ghost, targ, tload, tcount, reader >>

\* line 56, the read of total_problems
T_LoadTotal(t) ==
  /\ pc[t] = "load_total"
  /\ tload' = [ tload EXCEPT ![t] = total_problems ]
  /\ Goto(t, "store_total")
  /\ UNCHANGED << tracker, ret, call, ghost, targ, tcount, reader >>

\* line 56, the write of total_problems
T_StoreTotal(t) ==
  /\ pc[t] = "store_total"
  /\ total_problems' = total_problems_after(tload[t])
  /\ Goto(t, "check_weak")
  /\ UNCHANGED << problems_solved, topics_covered, weak_areas, ret, call,
                  ghost, targ, tload, tcount, reader >>

\* lines 58-59: the two tests
T_CheckWeak(t) ==
  /\ pc[t] = "check_weak"
  /\ IF weak_areas_after(weak_areas, targ[t].topic, targ[t].solved)
          # weak_areas
     THEN Goto(t, "append_weak")
     ELSE Goto(t, "count_solved")
  /\ UNCHANGED << tracker, ret, call, ghost, targ, tload, tcount, reader >>

\* line 60: weak_areas.append(topic)
T_AppendWeak(t) ==
  /\ pc[t] = "append_weak"
  /\ weak_areas' = Append(weak_areas, targ[t].topic)
  /\ Goto(t, "count_solved")
  /\ UNCHANGED << problems_solved, topics_covered, total_problems, ret, call,
                  ghost, targ, tload, tcount, reader >>

\* lines 62, 66: get_progress_summary counts the solved attempts
T_CountSolved(t) ==
  /\ pc[t] = "count_solved"
  /\ tcount' = [ tcount EXCEPT ![t] = SolvedCount(problems_solved) ]
  /\ Goto(t, "return")
  /\ UNCHANGED << tracker, ret, call, ghost, targ, tload, reader >>

\* lines 67-75: get_progress_summary builds the dict; update_progress
\* returns it
T_Return(t) ==
  /\ pc[t] = "return"
  /\ ret' = [ NoRet EXCEPT !.op = "update_progress",
                           !.progress =
                              Summary(tcount[t], total_problems,
                                      topics_covered, weak_areas) ]
  /\ call' = [ NoCall EXCEPT !.op = "update_progress",
                             !.problem_id = targ[t].id,
                             !.topic = targ[t].topic,
                             !.difficulty = targ[t].difficulty,
                             !.solved = targ[t].solved ]
  /\ calls' = calls + 1
  /\ solved_calls' = IF targ[t].solved THEN solved_calls + 1
                     ELSE solved_calls
  /\ Goto(t, "idle")
  /\ UNCHANGED << tracker, base, held, targ, tload, tcount, reader >>

\* a caller reads the summary while no call is in progress
T_GetProgressSummary ==
  /\ Idle
  /\ GetProgressSummary

NextConc ==
  \/ \E t \in Threads : T_Call(t)
  \/ \E t \in Threads : T_Append(t)
  \/ \E t \in Threads : T_AddTopic(t)
  \/ \E t \in Threads : T_LoadTotal(t)
  \/ \E t \in Threads : T_StoreTotal(t)
  \/ \E t \in Threads : T_CheckWeak(t)
  \/ \E t \in Threads : T_AppendWeak(t)
  \/ \E t \in Threads : T_CountSolved(t)
  \/ \E t \in Threads : T_Return(t)
  \/ T_GetProgressSummary

SpecConc == InitConc /\ [][NextConc]_vars

\* ------------------------------------------- a caller keeping a summary
\* get_progress_summary puts user_data['weak_areas'] itself in the dict
\* (line 74) and a copy of topics_covered (line 73): the dict a caller got
\* earlier reads, now, as it was returned except for weak_areas, which is
\* the tracker's list
Deref(progress) == [ progress EXCEPT !.weak_areas = weak_areas ]

\* the caller keeps the summary the last call returned
KeepSummary ==
  /\ ret.op \in { "update_progress", "get_progress_summary",
                  "submit_solution" }
  /\ held' = [ set |-> TRUE, progress |-> ret.progress ]
  /\ UNCHANGED << tracker, ret, call, calls, solved_calls, base, threads >>

InitHeld == Init /\ base = 0

NextHeld ==
  \/ UpdateProgress
  \/ GetProgressSummary
  \/ SubmitOther
  \/ KeepSummary

SpecHeld == InitHeld /\ [][NextHeld]_vars

\* ------------------------------- a thread reading while another records
\* One thread records attempts (the T_ steps of thread 1) while the reading
\* thread runs get_progress_summary, get_study_plan or start_session, split
\* at the calls they make.
Writers == { 1 }

RGoto(label) == rpc' = label

\* the reading thread enters get_progress_summary
R_CallSummary ==
  /\ rpc = "idle"
  /\ rloc' = [ NoLocals EXCEPT !.op = "get_progress_summary" ]
  /\ RGoto("count_solved")
  /\ UNCHANGED << tracker, ret, call, ghost, pc, targ, tload, tcount >>

\* the reading thread enters get_study_plan; line 262 calls
\* get_progress_summary
R_CallStudyPlan ==
  /\ rpc = "idle"
  /\ rloc' = [ NoLocals EXCEPT !.op = "get_study_plan" ]
  /\ RGoto("count_solved")
  /\ UNCHANGED << tracker, ret, call, ghost, pc, targ, tload, tcount >>

\* the reading thread enters start_session; line 214 calls
\* recommend_next_topic
R_CallStartSession ==
  \E user_level \in UserLevelInputs, ok \in BOOLEAN :
    /\ rpc = "idle"
    /\ rloc' = [ NoLocals EXCEPT !.op = "start_session",
                                 !.user_level = user_level,
                                 !.ok = ok ]
    /\ RGoto("recommend")
    /\ UNCHANGED << tracker, ret, call, ghost, pc, targ, tload, tcount >>

\* line 66: get_progress_summary counts the solved attempts
R_CountSolved ==
  /\ rpc = "count_solved"
  /\ rloc' = [ rloc EXCEPT !.count = SolvedCount(problems_solved),
                           !.len = Len(problems_solved) ]
  /\ RGoto("build")
  /\ UNCHANGED << tracker, ret, call, ghost, pc, targ, tload, tcount >>

\* lines 67-75: get_progress_summary builds the dict
R_BuildSummary ==
  /\ rpc = "build"
  /\ rloc' = [ rloc EXCEPT !.sum = Summary(rloc.count, total_problems,
                                           topics_covered, weak_areas) ]
  /\ IF rloc.op = "get_study_plan" THEN RGoto("recommend")
     ELSE RGoto("return")
  /\ UNCHANGED << tracker, ret, call, ghost, pc, targ, tload, tcount >>

\* line 263 / line 214: recommend_next_topic reads the tracker
R_Recommend ==
  /\ rpc = "recommend"
  /\ rloc' = [ rloc EXCEPT !.topic = recommend_next_topic ]
  /\ IF rloc.op = "start_session" THEN RGoto("generate")
     ELSE RGoto("return")
  /\ UNCHANGED << tracker, ret, call, ghost, pc, targ, tload, tcount >>

\* lines 217-221: the generator's client call returns or raises; line 226
\* then calls get_progress_summary
R_Generate ==
  /\ rpc = "generate"
  /\ rloc' = [ rloc EXCEPT !.problem =
                 generate_problem(rloc.topic, "Medium", rloc.user_level,
                                  rloc.ok) ]
  /\ RGoto("count_solved")
  /\ UNCHANGED << tracker, ret, call, ghost, pc, targ, tload, tcount >>

\* the reading thread's call returns its dict; the summary in it is read
\* through the tracker's weak_areas list
R_Return ==
  /\ rpc = "return"
  /\ LET progress == Deref(rloc.sum)
     IN  ret' =
           CASE rloc.op = "get_progress_summary" ->
                  [ NoRet EXCEPT !.op = "get_progress_summary",
                                 !.progress = progress ]
             [] rloc.op = "get_study_plan" ->
                  [ NoRet EXCEPT !.op = "get_study_plan",
                                 !.progress = progress,
                                 !.recommended_topic = rloc.topic,
                                 !.suggestions =
                                    generate_study_suggestions(progress) ]
             [] OTHER ->
                  [ NoRet EXCEPT !.op = "start_session",
                                 !.status = "session_started",
                                 !.problem = rloc.problem,
                                 !.progress = progress ]
  /\ call' = [ NoCall EXCEPT !.op = rloc.op,
                             !.topic = rloc.topic,
                             !.user_level = rloc.user_level,
                             !.ok = rloc.ok ]
  /\ RGoto("idle")
  /\ UNCHANGED << tracker, ghost, pc, targ, tload, tcount, rloc >>

NextRead ==
  \/ \E t \in Writers : T_Call(t)
  \/ \E t \in Writers : T_Append(t)
  \/ \E t \in Writers : T_AddTopic(t)
  \/ \E t \in Writers : T_LoadTotal(t)
  \/ \E t \in Writers : T_StoreTotal(t)
  \/ \E t \in Writers : T_CheckWeak(t)
  \/ \E t \in Writers : T_AppendWeak(t)
  \/ \E t \in Writers : T_CountSolved(t)
  \/ \E t \in Writers : T_Return(t)
  \/ R_CallSummary
  \/ R_CallStudyPlan
  \/ R_CallStartSession
  \/ R_CountSolved
  \/ R_BuildSummary
  \/ R_Recommend
  \/ R_Generate
  \/ R_Return

SpecRead == InitConc /\ [][NextRead]_vars

\* ================================================================ claims
LastAttempt == problems_solved[Len(problems_solved)]

\* the topic of the earliest attempt recorded with solved = False
FirstFailed ==
  LET failed == SelectSeq(problems_solved, LAMBDA a : ~a.solved)
  IN  failed[1].topic

\* C1: when the evaluator call inside submit_solution fails, the call
\* leaves problems_solved, total_problems, the solved count, topics_covered
\* and weak_areas as they were, and does not return 'solution_evaluated'.
C1_FailedEvaluationRecordsNothing ==
  [][ (call'.op = "submit_solution" /\ ~call'.ok)
        => /\ problems_solved' = problems_solved
           /\ total_problems' = total_problems
           /\ SolvedCount(problems_solved') = SolvedCount(problems_solved)
           /\ topics_covered' = topics_covered
           /\ weak_areas' = weak_areas
           /\ ret'.status # "solution_evaluated" ]_vars

\* C2: after a successful submit_solution, the solved flag of the attempt
\* appended last equals the evaluator's verdict, and a negative verdict
\* puts the topic in weak_areas.
C2_VerdictDrivesSolved ==
  (call.op = "submit_solution" /\ call.ok)
    => /\ LastAttempt.solved = call.verdict
       /\ (~call.verdict => LastAttempt.topic \in Range(weak_areas))

\* C3: after a successful submit_solution for the problem start_session
\* issued, the attempt appended last carries that problem's topic and
\* difficulty.
C3_AttemptCarriesProblemTopic ==
  (call.op = "submit_solution" /\ call.ok /\ call.problem # NoProblem)
    => /\ LastAttempt.topic = call.problem.topic
       /\ LastAttempt.difficulty = call.problem.difficulty

\* C4: after any sequence of update_progress calls, the summary's
\* total_problems is the number of calls made and its problems_solved the
\* number of calls with solved = True; the summary a call returns says the
\* same.
C4_CountsMatchCalls ==
  /\ get_progress_summary.total_problems = calls
  /\ get_progress_summary.problems_solved = solved_calls
  /\ ret.op \in { "update_progress", "submit_solution",
                  "get_progress_summary" }
       => /\ ret.progress.total_problems = calls
          /\ ret.progress.problems_solved = solved_calls

\* C4 witness: from the empty tracker, two calls, one solved and one not
C4_Witness ==
  /\ base = 0
  /\ calls = 2
  /\ solved_calls = 1
  /\ ret.op = "update_progress"

\* C5: once concurrent update_progress calls have all completed, every one
\* of them is in problems_solved and in total_problems, and a summary read
\* then reflects them.
C5_NoLostUpdate ==
  Idle => /\ Len(problems_solved) = calls
          /\ total_problems = calls
          /\ (ret.op = "get_progress_summary"
                => ret.progress.total_problems = calls)

\* C6: whenever weak_areas is non-empty, recommend_next_topic returns its
\* first element, which is the topic of the earliest attempt recorded with
\* solved = False, whatever is uncovered and whatever failed later.
C6_OldestWeaknessFirst ==
  /\ weak_areas # << >>
       => /\ recommend_next_topic = weak_areas[1]
          /\ recommend_next_topic = FirstFailed
  /\ (ret.op = "recommend_next_topic" /\ weak_areas # << >>)
       => ret.recommended_topic = FirstFailed

\* C6 witness: two weaknesses recorded, topics still uncovered, and the
\* recommendation has been asked for
C6_Witness ==
  /\ Len(weak_areas) = 2
  /\ Uncovered(topics_covered) # << >>
  /\ ret.op = "recommend_next_topic"
  /\ ret.recommended_topic = weak_areas[1]

\* the first topic of the catalog, in catalog order, that is not covered;
\* the catalog's first topic when all are covered
FirstUncovered ==
  IF \E i \in 1..Len(all_topics) : all_topics[i] \notin topics_covered
  THEN all_topics[CHOOSE i \in 1..Len(all_topics) :
                    /\ all_topics[i] \notin topics_covered
                    /\ \A j \in 1..(i - 1) : all_topics[j] \in topics_covered]
  ELSE all_topics[1]

\* C7: with weak_areas empty recommend_next_topic returns the first catalog
\* topic not in topics_covered, or the catalog's first topic when all are
\* covered; in every reachable state it returns a topic of the catalog.
C7_RecommendsCatalogTopic ==
  /\ weak_areas = << >> => recommend_next_topic = FirstUncovered
  /\ recommend_next_topic \in TopicCatalog

\* C8: weak_areas has no duplicate, every topic of weak_areas is in
\* topics_covered, and topics_covered has every topic of problems_solved.
C8_WeakAreasUniqueAndCovered ==
  /\ \A i, j \in 1..Len(weak_areas) :
       weak_areas[i] = weak_areas[j] => i = j
  /\ Range(weak_areas) \subseteq topics_covered
  /\ { problems_solved[i].topic : i \in 1..Len(problems_solved) }
       \subseteq topics_covered

\* C8 witness: two failed attempts on one topic, recorded as one weakness
C8_Witness ==
  /\ Len(problems_solved) = base + 2
  /\ ~problems_solved[base + 1].solved
  /\ ~problems_solved[base + 2].solved
  /\ problems_solved[base + 1].topic = problems_solved[base + 2].topic
  /\ weak_areas = << problems_solved[base + 1].topic >>

\* C9: update_progress rejects a topic outside the catalog and an empty
\* problem id without touching the tracker, so no such attempt is ever in
\* problems_solved.
C9_InvalidInputRejected ==
  \A i \in 1..Len(problems_solved) :
    /\ problems_solved[i].topic \in TopicCatalog
    /\ problems_solved[i].id # ""

\* C10: when problem generation fails inside start_session, the caller is
\* not told that a session started and is handed no problem.
C10_GenerationFailureSurfaced ==
  (call.op = "start_session" /\ ~call.ok)
    => ret.status # "session_started"

\* C11: start_session, whether generation succeeds or fails, and
\* get_study_plan leave problems_solved, total_problems, topics_covered and
\* weak_areas as they were.
C11_ReadOnlyOperations ==
  [][ call'.op \in { "start_session", "get_study_plan" }
        => /\ problems_solved' = problems_solved
           /\ total_problems' = total_problems
           /\ topics_covered' = topics_covered
           /\ weak_areas' = weak_areas ]_vars

\* C11 witness: a failed start_session on a tracker that has a history and
\* a weakness
C11_Witness ==
  /\ call.op = "start_session"
  /\ ~call.ok
  /\ Len(problems_solved) = base + 2
  /\ weak_areas # << >>

\* s is a prefix of t
IsPrefix(s, t) ==
  /\ Len(s) <= Len(t)
  /\ \A i \in 1..Len(s) : s[i] = t[i]

\* C14: problems_solved is append-only: every step keeps the recorded
\* attempts as a prefix, adds at most one attempt, and adds one only in
\* update_progress (called directly or by submit_solution).
C14_HistoryAppendOnly ==
  [][ /\ IsPrefix(problems_solved, problems_solved')
      /\ Len(problems_solved') <= Len(problems_solved) + 1
      /\ Len(problems_solved') = Len(problems_solved) + 1
           <=> call'.op \in { "update_progress", "submit_solution" } ]_vars

\* C14 witness: a second attempt, different from the first, has been appended
C14_Witness ==
  /\ Len(problems_solved) = base + 2
  /\ problems_solved[base + 1] # problems_solved[base + 2]
  /\ call.op = "update_progress"

\* C17: once an attempt has failed, weak_areas never shrinks, its first
\* element never changes, and recommend_next_topic returns that first
\* failed topic after every later step, solved attempts on it included.
C17_FirstWeaknessIsPermanent ==
  [][ weak_areas # << >>
        => /\ Len(weak_areas') >= Len(weak_areas)
           /\ weak_areas'[1] = weak_areas[1]
           /\ recommend_next_topic' = recommend_next_topic
           /\ recommend_next_topic' = FirstFailed ]_vars

\* C17 witness: a failed attempt, then a solved attempt on the same topic,
\* and start_session still asks for that topic
C17_Witness ==
  /\ Len(problems_solved) = base + 2
  /\ ~problems_solved[base + 1].solved
  /\ problems_solved[base + 2].solved
  /\ problems_solved[base + 2].topic = problems_solved[base + 1].topic
  /\ call.op = "start_session"
  /\ call.topic = problems_solved[base + 1].topic

\* C18: through start_session, submit_solution and get_study_plan alone,
\* every recorded attempt has topic 'Dynamic Programming', difficulty
\* 'Medium' and solved = True, weak_areas stays empty, accuracy is 0 or 100,
\* and start_session always asks for an 'Arrays' problem.
C18_PublicOperationsRecordOneTopic ==
  /\ \A i \in 1..Len(problems_solved) :
       /\ problems_solved[i].topic = "Dynamic Programming"
       /\ problems_solved[i].difficulty = "Medium"
       /\ problems_solved[i].solved
  /\ weak_areas = << >>
  /\ get_progress_summary.accuracy \in { 0, 10000 }
  /\ ret.op \in { "start_session", "submit_solution", "get_study_plan" }
       => ret.progress.accuracy \in { 0, 10000 }
  /\ call.op = "start_session" => call.topic = "Arrays"
  /\ recommend_next_topic = "Arrays"

\* C18 witness: start_session asks for 'Arrays' after the problem it issued
\* before was answered
C18_Witness ==
  /\ call.op = "start_session"
  /\ call.topic = "Arrays"
  /\ Len(problems_solved) = 2
  /\ problems_solved[1].id = Slug("Arrays")

\* position of a suggestion in the rule table
RuleRank(rule) ==
  CASE rule = "consistency" -> 1
    [] rule = "concepts" -> 2
    [] rule = "review" -> 3
    [] OTHER -> 0

\* C12: the suggestions of get_study_plan are those of the matching rules
\* (total_problems < 10; accuracy < 50; weak_areas non-empty, naming
\* weak_areas[0]), each once, in that order.
C12_SuggestionsFollowRuleTable ==
  ret.op = "get_study_plan" =>
    LET p == ret.progress
        s == ret.suggestions
        Has(rule) == \E i \in 1..Len(s) : s[i].rule = rule
    IN  /\ Has("consistency") <=> p.total_problems < 10
        /\ Has("concepts") <=> p.accuracy < 5000
        /\ Has("review") <=> p.weak_areas # << >>
        /\ \A i \in 1..Len(s) :
             /\ RuleRank(s[i].rule) > 0
             /\ s[i].rule = "review" => s[i].topic = p.weak_areas[1]
             /\ s[i].rule # "review" => s[i].topic = ""
        /\ \A i, j \in 1..Len(s) :
             i < j => RuleRank(s[i].rule) < RuleRank(s[j].rule)

\* C12 witness: 3 attempts, 1 solved, two weaknesses: all three suggestions
C12_Witness ==
  /\ ret.op = "get_study_plan"
  /\ ret.progress.total_problems = 3
  /\ ret.progress.accuracy = 3333
  /\ Len(ret.suggestions) = 3

\* the calls whose result carries a summary
HasProgress ==
  ret.op \in { "update_progress", "get_progress_summary", "start_session",
               "submit_solution", "get_study_plan" }

\* C13 as stated: in every returned summary accuracy is in [0, 100], is 0
\* when total_problems = 0, is 100 exactly when every recorded attempt was
\* solved, and 0 <= problems_solved <= total_problems.
C13_AccuracyExact ==
  HasProgress =>
    LET p == ret.progress
    IN  /\ 0 <= p.accuracy /\ p.accuracy <= 10000
        /\ p.total_problems = 0 => p.accuracy = 0
        /\ p.total_problems > 0
             => (p.accuracy = 10000 <=> p.problems_solved = p.total_problems)
        /\ 0 <= p.problems_solved
        /\ p.problems_solved <= p.total_problems

\* C13 amended: as above, but accuracy is 100 whenever every recorded
\* attempt was solved, and with fewer than 20000 attempts only then.
C13_AccuracyRounded ==
  HasProgress =>
    LET p == ret.progress
    IN  /\ 0 <= p.accuracy /\ p.accuracy <= 10000
        /\ p.total_problems = 0 => p.accuracy = 0
        /\ (p.total_problems > 0 /\ p.problems_solved = p.total_problems)
             => p.accuracy = 10000
        /\ (p.total_problems > 0 /\ p.accuracy = 10000)
             => (p.problems_solved = p.total_problems
                   \/ p.total_problems >= 20000)
        /\ 0 <= p.problems_solved
        /\ p.problems_solved <= p.total_problems

\* C13 witness: a long history with one failed attempt, reported as 100
C13_Witness ==
  /\ ret.op = "get_progress_summary"
  /\ ret.progress.total_problems >= 20000
  /\ ret.progress.problems_solved = ret.progress.total_problems - 1
  /\ ret.progress.accuracy = 10000

\* recommendNextTopic of the spec, applied to a summary
RecommendFor(progress) ==
  IF progress.weak_areas # << >>
  THEN progress.weak_areas[1]
  ELSE IF \E i \in 1..Len(all_topics) :
            all_topics[i] \notin progress.topics_covered
  THEN all_topics[CHOOSE i \in 1..Len(all_topics) :
                    /\ all_topics[i] \notin progress.topics_covered
                    /\ \A j \in 1..(i - 1) :
                         all_topics[j] \in progress.topics_covered]
  ELSE all_topics[1]

\* C15: the topic get_study_plan recommends is the recommendation for the
\* summary in the same result, and the topic of the problem start_session
\* issues is the recommendation for the summary it returns, also while
\* another thread records an attempt.
C15_RecommendationMatchesSummary ==
  /\ ret.op = "get_study_plan"
       => ret.recommended_topic = RecommendFor(ret.progress)
  /\ (ret.op = "start_session" /\ ~ret.problem.error)
       => ret.problem.topic = RecommendFor(ret.progress)

\* C16: a summary read while another thread records an attempt has
\* 0 <= problems_solved <= total_problems, accuracy at most 100, and
\* total_problems equal to the length of the history it was counted from.
C16_SummaryNeverIntermediate ==
  (ret.op = "get_progress_summary" /\ call.op = "get_progress_summary")
    => /\ 0 <= ret.progress.problems_solved
       /\ ret.progress.problems_solved <= ret.progress.total_problems
       /\ ret.progress.accuracy <= 10000
       /\ (rloc.op = "get_progress_summary" /\ rpc = "idle")
            => ret.progress.total_problems = rloc.len

\* C19: a summary dict a caller kept reads, after any later calls, as it was
\* returned: total_problems, problems_solved, accuracy, topics_covered and
\* weak_areas.
C19_SummaryIsSnapshot ==
  held.set =>
    /\ Deref(held.progress).total_problems = held.progress.total_problems
    /\ Deref(held.progress).problems_solved = held.progress.problems_solved
    /\ Deref(held.progress).accuracy = held.progress.accuracy
    /\ Deref(held.progress).topics_covered = held.progress.topics_covered
    /\ Deref(held.progress).weak_areas = held.progress.weak_areas
====
